---- MODULE Spec2Model ----
(***************************************************************************)
(* A model of the SchemaFlow execution engine: the scheduler               *)
(* (engine/executor.py), the execution context (engine/context.py), the    *)
(* execution recorder (engine/execution_recorder.py) and the outbound      *)
(* side of the streaming channel.                                          *)
(*                                                                         *)
(* SpecSort  checks topological_sort on bounded workflows.                 *)
(* Spec      runs one execution: the executor task, the stop() task, user  *)
(*           responses, the user-input timer and the closing of the        *)
(*           channel interleave at the await points of the code.           *)
(* FairSpec  is Spec with the fairness asyncio gives to runnable tasks.    *)
(* SmallSpec is Spec on the workflows of FairSpec.                         *)
(* SpecBrowser runs BrowserManager and the tab actions on one context.     *)
(* SpecShared  runs several executions on the one executor of the process. *)
(* SpecResolve applies resolve_variables to bounded configs.                *)
(* SpecRegistry runs register and get_all_schemas of the action registry.  *)
(* SpecLocate runs HybridElementLocator.locate and a click node on a page. *)
(* SpecStore  interleaves save_execution calls for one workflow.           *)
(***************************************************************************)
EXTENDS Integers, Sequences, FiniteSets, TLC

VARIABLES
    sNodes,      \* topological_sort: the ids of the nodes list, in list order
    sEdges,      \* topological_sort: the edges list, <<source, target>> pairs
    sResult,     \* topological_sort: the returned list
    sDone,       \* topological_sort has returned
    wf,          \* the workflow's nodes list: wf[i] is the type of node i
    mgrAccepts,  \* BrowserManager.connect accepts the storage_state keyword
    ws,          \* context.websocket: "none", "open" or "closed"
    registered,  \* execution_id \in active_executions
    status,      \* context.status
    cur,         \* context.current_node_id (0 is None)
    page,        \* context.page: "none", "open" or "closed"
    mode,        \* context._is_cdp / context._reused_page as set by connect
    evt,         \* context._user_input_event: "none", "clear" or "set"
    resp,        \* context._user_input_response
    pc,          \* the await point the execute() task is suspended at
    idx,         \* position of the walk in execution_order
    order,       \* execution_order
    prev,        \* previous_status, local to request_user_input
    exc,         \* the exception execute() ended with
    records,     \* recorder.node_records: node id -> [status, error, result],
                 \* result telling that record.result is set
    events,      \* the messages sent on the channel, in emission order
    invoked,     \* the node ids whose execute_func has been called
    raised,      \* node id -> what its execute_func raised
    stopPc,      \* the await point the stop() task is suspended at
    stops,       \* number of stop() calls made
    stopHit,     \* a stop() call has found the context in active_executions
    saved,       \* number of records recorder.save handed to the repository
    cleanups,    \* number of calls of BrowserManager.cleanup by _cleanup
    asked,       \* how the last request_user_input ended: what it returned
                 \* or the error it raised
    detected,    \* what the detection of _check_ai_intervention gave last:
                 \* "error" (it raised), "clear" or "needed"
    bm,          \* BrowserManager: one context and the browser it connects to
    reg,         \* active_executions and the executions sharing one executor
    rv,          \* resolve_variables: a config, the variables and the results
    ar,          \* ActionRegistry._actions and the last schema listing
    loc,         \* HybridElementLocator.locate: the page, the call, the result
    js           \* JSONFileStorage: the files of the executions directory

sortVars == <<sNodes, sEdges, sResult, sDone>>
runVars == <<wf, mgrAccepts, ws, registered, status, cur, page, mode, evt,
             resp, pc, idx, order, prev, exc, records, events, invoked,
             raised, stopPc, stops, stopHit, saved, cleanups, asked,
             detected>>
libVars == <<rv, ar, loc, js>>
restVars == <<sortVars, bm, reg, libVars>>
vars == <<sortVars, runVars, bm, reg, libVars>>

----------------------------------------------------------------------------
(* Bounds *)

MaxNodes == 3      \* nodes of a workflow given to topological_sort
MaxEdges == 3      \* edges of a workflow given to topological_sort
MaxWalk == 2       \* nodes of a workflow that is executed
MaxStops == 1      \* stop() calls during one execution
MaxFairWalk == 1   \* nodes of a workflow that is executed under FairSpec
MaxUserTabs == 2   \* tabs the user's browser has open when the engine attaches
MaxTabs == 3       \* pages of a browser, the user's and the engine's together
MaxConnects == 2   \* calls of BrowserManager.connect on one context
MaxExecs == 2      \* calls of execute() on one executor, and execution ids

----------------------------------------------------------------------------
(* Sequences helpers *)

Range(s) == {s[i] : i \in DOMAIN s}

SeqsUpTo(S, n) == UNION {[1..k -> S] : k \in 0..n}

Perms(S) == {p \in [1..Cardinality(S) -> S] : Range(p) = S}

IndexOf(s, x) == CHOOSE i \in DOMAIN s : s[i] = x

----------------------------------------------------------------------------
(* topological_sort, engine/executor.py:27-60 *)

\* The edges counted by the loop over the edges: both endpoints are node
\* ids (executor.py:44).
Counted(ids, edges) ==
    SelectSeq(edges, LAMBDA e : e[1] \in ids /\ e[2] \in ids)

\* adj[n]: the targets of the counted edges leaving n, in edge order
\* (executor.py:45).
Adj(ids, edges, n) ==
    LET out == SelectSeq(Counted(ids, edges), LAMBDA e : e[1] = n)
    IN [i \in DOMAIN out |-> out[i][2]]

\* in_degree[n] after the loop over the edges (executor.py:46).
InDegree(ids, edges, n) ==
    Len(SelectSeq(Counted(ids, edges), LAMBDA e : e[2] = n))

\* for neighbor in adj[node_id]: in_degree[neighbor] -= 1; append at zero
\* (executor.py:55-58).  Returns the new in_degree and queue.
RECURSIVE Relax(_, _, _)
Relax(nbrs, deg, queue) ==
    IF nbrs = <<>> THEN [deg |-> deg, queue |-> queue]
    ELSE LET m == Head(nbrs)
             d == [deg EXCEPT ![m] = @ - 1]
         IN Relax(Tail(nbrs), d, IF d[m] = 0 THEN Append(queue, m) ELSE queue)

\* while queue: ... (executor.py:51-58)
RECURSIVE Drain(_, _, _, _, _)
Drain(ids, edges, deg, queue, result) ==
    IF queue = <<>> THEN result
    ELSE LET n == Head(queue)
             r == Relax(Adj(ids, edges, n), deg, Tail(queue))
         IN Drain(ids, edges, r.deg, r.queue, Append(result, n))

\* A mutant of topological_sort: the in-degree counts every edge that
\* enters n, also an edge whose source is not a node of the workflow.
topological_sort_unchecked_source(nodes, edges, iter) ==
    LET ids == Range(nodes)
        deg == [n \in ids |->
                  Len(SelectSeq(edges, LAMBDA e : e[2] = n))]
        queue == SelectSeq(iter, LAMBDA n : deg[n] = 0)
    IN Drain(ids, edges, deg, queue, <<>>)

\* nodes: the ids of the nodes list; iter: the order in which the set
\* node_ids is iterated, which is also the key order of adj and in_degree
\* (executor.py:37-39) and so the order of the initial queue (executor.py:48).
topological_sort(nodes, edges, iter) ==
    LET ids == Range(nodes)
        deg == [n \in ids |-> InDegree(ids, edges, n)]
        queue == SelectSeq(iter, LAMBDA n : deg[n] = 0)
    IN Drain(ids, edges, deg, queue, <<>>)

----------------------------------------------------------------------------
(* SpecSort: topological_sort on every workflow within the bounds.  The    *)
(* nodes are named by their position in the nodes list; 0 is an id that is *)
(* not a node of the workflow.                                             *)

RunIdle ==
    /\ wf = <<>> /\ mgrAccepts = FALSE /\ ws = "none" /\ registered = FALSE
    /\ status = "pending" /\ cur = 0 /\ page = "none" /\ mode = "none"
    /\ evt = "none" /\ resp = "none" /\ pc = "idle" /\ idx = 0
    /\ order = <<>> /\ prev = "pending" /\ exc = "none" /\ records = <<>>
    /\ events = <<>> /\ invoked = <<>> /\ raised = <<>> /\ stopPc = "idle"
    /\ stops = 0 /\ stopHit = FALSE /\ saved = 0 /\ cleanups = 0
    /\ asked = "none" /\ detected = "none"

\* The browser manager and the registry of the executor when they have not
\* been used.
BmIdle ==
    bm = [browser |-> "none", page |-> 0, is_cdp |-> FALSE,
          reused_page |-> FALSE, playwright |-> "none", pages |-> <<>>,
          ret |-> <<>>, op |-> "none", connects |-> 0, attachable |-> FALSE,
          ended |-> FALSE]

RegIdle == reg = <<>>

\* The interpolator, the action registry, the locator and the file store
\* when they have not been used.
LibIdle == rv = <<>> /\ ar = <<>> /\ loc = <<>> /\ js = <<>>

SortInit ==
    /\ BmIdle /\ RegIdle /\ LibIdle
    /\ \E k \in 0..MaxNodes :
         /\ sNodes = [i \in 1..k |-> i]
         /\ sEdges \in SeqsUpTo((0..k) \X (0..k), MaxEdges)
    /\ sResult = <<>>
    /\ sDone = FALSE
    /\ RunIdle

\* The iteration orders of the set node_ids that differ in what
\* topological_sort reads of them, the relative order of the nodes of
\* in-degree zero: every order of those, followed by the other nodes.
IterOrders(nodes, edges) ==
    LET ids == Range(nodes)
        zero == {n \in ids : InDegree(ids, edges, n) = 0}
        rest == SelectSeq(nodes, LAMBDA n : n \notin zero)
    IN {q \o rest : q \in Perms(zero)}

\* One call of topological_sort(nodes, edges); the set node_ids iterates in
\* an order the caller does not control.
Sort ==
    /\ ~sDone
    /\ \E it \in IterOrders(sNodes, sEdges) :
         sResult' = topological_sort(sNodes, sEdges, it)
    /\ sDone' = TRUE
    /\ UNCHANGED <<sNodes, sEdges, runVars, bm, reg, libVars>>

SortNext == Sort

SpecSort == SortInit /\ [][SortNext]_vars

\* The edges of the workflow that join two of its nodes.
ValidEdges == {e \in Range(sEdges) : e[1] \in Range(sNodes) /\ e[2] \in Range(sNodes)}

\* The valid edges form an acyclic graph: some order of the nodes respects
\* every one of them.
Acyclic ==
    \E p \in Perms(Range(sNodes)) :
        \A e \in ValidEdges : IndexOf(p, e[1]) < IndexOf(p, e[2])

\* C1: for an acyclic workflow with unique node ids, topological_sort
\* returns every node id exactly once and every edge (u,v) between nodes of
\* the workflow has u before v, parallel edges included.
C1_ScheduleTotality ==
    (sDone /\ Acyclic) =>
        /\ Len(sResult) = Len(sNodes)
        /\ Range(sResult) = Range(sNodes)
        /\ \A e \in ValidEdges :
               IndexOf(sResult, e[1]) < IndexOf(sResult, e[2])

\* A sorted acyclic workflow of three nodes with a parallel edge and a second
\* edge, whose order is not the order of the nodes list.
C1_Witness ==
    /\ sDone /\ Acyclic
    /\ Len(sNodes) = 3
    /\ \E i, j \in DOMAIN sEdges : i # j /\ sEdges[i] = sEdges[j] /\ sEdges[i] \in ValidEdges
    /\ Cardinality(ValidEdges) = 2
    /\ sResult # sNodes

\* C19: the schedule is the one the queue gives when the nodes that are
\* ready at the start enter it in the order of the nodes list: it is a
\* function of the nodes and edges lists alone.
C19_TiesInInsertionOrder ==
    sDone => sResult = topological_sort(sNodes, sEdges, sNodes)

\* C20: topological_sort returns a schedule only for an acyclic workflow; a
\* workflow with a cycle or a self-loop is rejected.
C20_CyclicIsRejected == sDone => Acyclic

----------------------------------------------------------------------------
(* Spec: one execution.                                                    *)
(*                                                                         *)
(* A node of the executed workflow is its type; node i of the nodes list   *)
(* has id i and the edges are the chain 1 -> 2 -> ... -> n.                *)
(*   "noop"        start / end (actions/base.py): returns without awaiting *)
(*   "wait"        wait (actions/control.py:23-41): logs, sleeps           *)
(*   "driver"      navigate, click, ... (actions/browser.py): one await of *)
(*                 the browser driver, which returns or raises             *)
(*   "user_input"  user_input (actions/control.py:138-286)                 *)
(*   "unknown"     a type that is not registered                           *)
(*   "gated"       a start/end node whose config sets                      *)
(*                 enable_ai_intervention                                  *)

Kinds == {"noop", "wait", "driver", "user_input", "unknown", "gated"}

Terminal == {"completed", "failed", "cancelled"}

\* The positions of the task inside request_user_input between the
\* creation of the Event and the end of the send (context.py:212-221).
Asks == {"gate_ask", "input_ask"}

Ev(t, n, ok) == [type |-> t, node |-> n, ok |-> ok]

NoRecord == [status |-> "none", error |-> "", result |-> FALSE]

\* The part of the state the execute() task works on, as one value, so that
\* the code between two await points composes into one step.
World ==
    [registered |-> registered, status |-> status, cur |-> cur,
     page |-> page, mode |-> mode, evt |-> evt, resp |-> resp, pc |-> pc,
     idx |-> idx, order |-> order, prev |-> prev, exc |-> exc,
     records |-> records, events |-> events, invoked |-> invoked,
     raised |-> raised, saved |-> saved, cleanups |-> cleanups,
     asked |-> asked, detected |-> detected]

Becomes(w) ==
    /\ registered' = w.registered /\ status' = w.status /\ cur' = w.cur
    /\ page' = w.page /\ mode' = w.mode /\ evt' = w.evt /\ resp' = w.resp
    /\ pc' = w.pc /\ idx' = w.idx /\ order' = w.order /\ prev' = w.prev
    /\ exc' = w.exc /\ records' = w.records /\ events' = w.events
    /\ invoked' = w.invoked /\ raised' = w.raised
    /\ saved' = w.saved /\ cleanups' = w.cleanups /\ asked' = w.asked
    /\ detected' = w.detected

Sent(w, e) == [w EXCEPT !.events = Append(@, e)]

\* websocket.send_json inside try/except (ConnectionClosed,
\* WebSocketDisconnect): the message is sent on an open channel and the
\* failure of a closed one is swallowed.
SendGuarded(w, e) == IF ws = "open" THEN Sent(w, e) ELSE w

\* ExecutionContext.log, context.py:271-301.
Log(w) == SendGuarded(w, Ev("log", w.cur, TRUE))

\* The finally clause of execute(), executor.py:134-135: _cleanup starts.
Finish(w, e) == [w EXCEPT !.pc = "cleanup", !.exc = e]

\* The except clause of execute(), executor.py:116-119, up to the await of
\* context.log.
Handler(w, e) ==
    [Log([w EXCEPT !.status = "failed"]) EXCEPT !.pc = "err_send", !.exc = e]

\* ExecutionRecorder.fail_node, execution_recorder.py:69-89.
fail_node(w, n, msg) ==
    [w EXCEPT !.records[n].status = "failed", !.records[n].error = msg]

\* ExecutionRecorder.complete_node, execution_recorder.py:47-67.
complete_node(w, n) ==
    [w EXCEPT !.records[n].status = "completed", !.records[n].result = TRUE]

\* ExecutionRecorder.start_node, execution_recorder.py:21-45.
start_node(w, n) ==
    [w EXCEPT !.records[n] = [status |-> "running", error |-> "",
                              result |-> FALSE]]

\* The except Exception clause of the node, executor.py:296-314, and the
\* handler of execute() its raise lands in.
OnException(w, e) ==
    LET n == w.cur
        w1 == fail_node(w, n, e)
    IN IF ws = "closed"
       THEN Handler(w1, "WebSocketDisconnect")
       ELSE Handler(Log(SendGuarded(w1, Ev("node_complete", n, FALSE))), e)

\* The except PlaywrightError clause, executor.py:266-289.
OnPlaywrightError(w, e) ==
    LET n == w.cur
    IN IF e = "TargetClosed"
       THEN Finish(SendGuarded([fail_node(w, n, "cancelled by user")
                                   EXCEPT !.status = "cancelled"],
                               Ev("node_complete", n, FALSE)), "none")
       ELSE Handler(w, e)

\* After the walk, executor.py:316-336, up to the await of the send of
\* execution_complete.
Complete(w) ==
    IF w.status = "cancelled" THEN Finish(w, "none")
    ELSE LET w1 == [w EXCEPT !.status = "completed"]
         IN IF ws = "closed" THEN Handler(w1, "WebSocketDisconnect")
            ELSE [SendGuarded(w1, Ev("execution_complete", 0, TRUE))
                     EXCEPT !.pc = "save"]

\* The head of the loop body, executor.py:175-204, up to the await of the
\* send of node_start.
LoopTop(w) ==
    IF w.idx > Len(w.order) THEN Complete(w)
    ELSE IF w.status = "cancelled" THEN Complete(Log(w))
    ELSE LET n == w.order[w.idx]
             w1 == start_node([w EXCEPT !.cur = n], n)
         IN IF ws = "closed" THEN Handler(w1, "WebSocketDisconnect")
            ELSE [SendGuarded(w1, Ev("node_start", n, TRUE))
                     EXCEPT !.pc = "dispatch"]

\* executor.py:223-236: the checkpoint after the action, complete_node and
\* the send of node_complete.
AfterExec(w) ==
    LET n == w.cur
    IN IF w.status = "cancelled"
       THEN Finish(fail_node(Log(w), n, "cancelled"), "CancelledError")
       ELSE LET w1 == complete_node(w, n)
            IN IF ws = "closed" THEN OnException(w1, "WebSocketDisconnect")
               ELSE [SendGuarded(w1, Ev("node_complete", n, TRUE))
                        EXCEPT !.pc = "shot"]

\* ExecutionContext.request_user_input, context.py:208-228, on a context
\* with a channel, up to the send of user_input_required.
Pause(w) ==
    [w EXCEPT !.prev = w.status, !.status = "paused", !.resp = "none",
              !.evt = "clear"]

\* execute_func(context, resolved_config), executor.py:220, up to the first
\* await of the action that can suspend it.
Invoke(w) ==
    LET n == w.cur
        k == wf[n]
        w1 == [w EXCEPT !.invoked = Append(@, n)]
    IN CASE k \in {"noop", "gated"} -> AfterExec(w1)
         [] k \in {"wait", "driver"} -> [Log(w1) EXCEPT !.pc = "exec"]
         [] k = "user_input" ->
              IF ws = "none" THEN [Log(Log(w1)) EXCEPT !.pc = "exec"]
              ELSE [Pause(Log(w1)) EXCEPT !.pc = "input_ask"]

\* executor.py:206-217 after the send of node_start: the registry lookup,
\* the checkpoint, and the start of _check_ai_intervention
\* (executor.py:445-461).
Dispatch(w) ==
    LET k == wf[w.cur]
    IN IF k = "unknown" THEN Handler(w, "ValueError")
       ELSE IF w.status = "cancelled" THEN Finish(Log(w), "CancelledError")
       ELSE IF k = "gated"
            THEN IF w.page = "none" THEN Invoke(Log(w))
                 ELSE [Log(w) EXCEPT !.pc = "gate"]
       ELSE Invoke(w)

\* _check_ai_intervention after the screenshot and the detection,
\* executor.py:461-512.  o is what they gave: "error" (the screenshot
\* raised, which the except clause of lines 506-510 logs), "clear" or
\* "needed" (the answer of the detector, which is also what
\* AIInterventionDetector.detect returns when its model call raises).
Gate(w0, o) ==
    LET w == [w0 EXCEPT !.detected = o]
    IN CASE o = "error" -> Invoke(Log(w))
         [] o = "clear" -> Invoke(Log(w))
         [] o = "needed" ->
              IF ws = "none" THEN Invoke(Log(Log(Log(w))))
              ELSE IF ws = "closed" THEN Invoke(w)
              ELSE [Pause(Sent(Log(Log(w)),
                               Ev("ai_intervention_required", w.cur, TRUE)))
                       EXCEPT !.pc = "gate_ask"]

\* request_user_input from its send to the wait, context.py:214-230.  The
\* send of user_input_required is an await that comes after the Event was
\* created: on an open channel the message and a log entry go out and the
\* task waits; on a closed one the send raises, which the caller logs and
\* survives (control.py:283-286 for the node, executor.py:506-510 for the
\* gate) with the status left at paused.
Ask(w) ==
    IF ws = "open"
    THEN [Log(Sent(w, Ev("user_input_required", w.cur, TRUE)))
             EXCEPT !.pc = IF w.pc = "gate_ask" THEN "gate_wait"
                           ELSE "input_wait"]
    ELSE IF w.pc = "gate_ask" THEN Invoke(Log(w)) ELSE AfterExec(Log(w))

\* A mutant of request_user_input_return: the status the pause replaced is
\* not put back.
request_user_input_stays_paused(w, timedOut) ==
    Log([w EXCEPT !.asked = IF timedOut THEN "TimeoutError"
                            ELSE IF w.resp = "cancel" THEN "RuntimeError"
                            ELSE w.resp])

\* request_user_input after the wait, context.py:230-248: wait_for returned
\* (lines 236-243: the status is restored, a response of "cancel" raises
\* RuntimeError, any other response is returned) or raised
\* asyncio.TimeoutError (lines 245-248: the status is restored and
\* TimeoutError is raised).  Either way one entry is logged.
request_user_input_return(w, timedOut) ==
    Log([w EXCEPT !.status = w.prev,
                  !.asked = IF timedOut THEN "TimeoutError"
                            ELSE IF w.resp = "cancel" THEN "RuntimeError"
                            ELSE w.resp])

\* What the caller of request_user_input does with the outcome
\* (executor.py:499-510 for the gate, control.py:270-286 for the user_input
\* node).  timedOut: wait_for raised asyncio.TimeoutError.
Resume(w, timedOut) ==
    LET w1 == request_user_input_return(w, timedOut)
    IN IF timedOut
       THEN IF w.pc = "gate_wait" THEN Invoke(Log(w1)) ELSE AfterExec(Log(w1))
       ELSE IF w.resp = "cancel"
            THEN IF w.pc = "gate_wait" THEN Handler(w1, "RuntimeError")
                 ELSE OnException([w1 EXCEPT !.raised[w.cur] = "RuntimeError"],
                                  "RuntimeError")
            ELSE IF w.pc = "gate_wait" THEN Invoke(Log(w1))
                 ELSE AfterExec(Log(w1))

----------------------------------------------------------------------------
(* The actions of Spec.  Each action of the execute() task resumes it at   *)
(* the await point pc names and runs it to the next one.                   *)

envVars == <<wf, mgrAccepts, ws>>
stopVars == <<stopPc, stops, stopHit>>
histVars == <<saved, cleanups, asked, detected>>

ChainEdges(n) == [i \in 1..(n - 1) |-> <<i, i + 1>>]

\* execute() is given a workflow, a connected channel and no browser.
Init ==
    /\ wf \in SeqsUpTo(Kinds, MaxWalk)
    /\ mgrAccepts \in BOOLEAN
    /\ ws = "open"
    /\ registered = FALSE
    /\ status = "pending"
    /\ cur = 0
    /\ page = "none"
    /\ mode = "none"
    /\ evt = "none"
    /\ resp = "none"
    /\ pc = "idle"
    /\ idx = 0
    /\ order = <<>>
    /\ prev = "pending"
    /\ exc = "none"
    /\ records = [n \in DOMAIN wf |-> NoRecord]
    /\ events = <<>>
    /\ invoked = <<>>
    /\ raised = [n \in DOMAIN wf |-> "none"]
    /\ stopPc = "idle"
    /\ stops = 0
    /\ stopHit = FALSE
    /\ saved = 0
    /\ cleanups = 0
    /\ asked = "none" /\ detected = "none"
    /\ BmIdle /\ RegIdle /\ LibIdle
    /\ sNodes = <<>> /\ sEdges = <<>> /\ sResult = <<>> /\ sDone = FALSE

\* execute(), executor.py:94-115 and 143-151: the context is registered
\* under the lock, the status becomes running and connect is called with the
\* keyword storage_state.  BrowserManager.connect(self, context, headless)
\* (browser_manager.py:86) does not take that keyword and the call raises
\* TypeError; with a manager whose connect takes it, the body of connect
\* starts (browser_manager.py:98-99).
Execute ==
    /\ pc = "idle"
    /\ stopPc = "idle"
    /\ LET w == [World EXCEPT !.registered = TRUE, !.status = "running"]
       IN Becomes(IF mgrAccepts THEN [Log(w) EXCEPT !.pc = "connect"]
                  ELSE Handler(w, "TypeError"))
    /\ UNCHANGED <<envVars, stopVars, restVars>>

\* connect returns, browser_manager.py:120-203, with the page it adopted
\* ("attach_reused"), created in the attached browser ("attach_new") or
\* created in a launched browser ("launch"); executor.py:156-171 follow, up
\* to the await of the send of execution_started.
ConnectDone ==
    /\ pc = "connect"
    /\ \E m \in {"attach_reused", "attach_new", "launch"} :
       \E it \in Perms(DOMAIN wf) :
         LET w == [Log(World) EXCEPT
                     !.page = "open", !.mode = m, !.idx = 1,
                     !.order = topological_sort([i \in DOMAIN wf |-> i],
                                                ChainEdges(Len(wf)), it)]
         IN Becomes(IF ws = "closed" THEN Handler(w, "WebSocketDisconnect")
                    ELSE [SendGuarded(w, Ev("execution_started", 0, TRUE))
                             EXCEPT !.pc = "announce"])
    /\ UNCHANGED <<envVars, stopVars, restVars>>

\* connect raises: no debug port answered and the launch failed
\* (browser_manager.py:199).
ConnectFail ==
    /\ pc = "connect"
    /\ Becomes(Handler(World, "BrowserError"))
    /\ UNCHANGED <<envVars, stopVars, restVars>>

\* After the send of execution_started: the first pass through the loop
\* head.
Announce ==
    /\ pc = "announce"
    /\ Becomes(LoopTop(World))
    /\ UNCHANGED <<envVars, stopVars, restVars>>

\* After the send of node_start.
DispatchNode ==
    /\ pc = "dispatch"
    /\ Becomes(Dispatch(World))
    /\ UNCHANGED <<envVars, stopVars, restVars>>

\* The screenshot and the detection of _check_ai_intervention return.  A
\* closed page gives no screenshot.
GateDone ==
    /\ pc = "gate"
    /\ \E o \in (IF page = "closed" THEN {"error"}
                 ELSE {"error", "clear", "needed"}) :
         Becomes(Gate(World, o))
    /\ UNCHANGED <<envVars, stopVars, restVars>>

\* The await inside the action returns: the sleep of wait, or the driver
\* call, which succeeds or raises a target-closed error, another driver
\* error (a Playwright timeout, a navigation error) or a ValueError of the
\* action.  On a closed page the driver call raises target closed.
ExecReturn ==
    /\ pc = "exec"
    /\ LET n == cur
           outs == IF wf[n] # "driver" THEN {"ok"}
                   ELSE IF page = "closed" THEN {"TargetClosed"}
                   ELSE {"ok", "TargetClosed", "PlaywrightError", "ValueError"}
       IN \E o \in outs :
            LET w == [World EXCEPT !.raised[n] = IF o = "ok" THEN @ ELSE o]
            IN Becomes(CASE o = "ok" -> AfterExec(w)
                         [] o = "ValueError" -> OnException(w, o)
                         [] OTHER -> OnPlaywrightError(w, o))
    /\ UNCHANGED <<envVars, stopVars, restVars>>

\* The send of user_input_required returns or raises.
AskSend ==
    /\ pc \in Asks
    /\ Becomes(Ask(World))
    /\ UNCHANGED <<envVars, stopVars, restVars>>

\* The rendezvous was signalled: wait_for returns (context.py:231-243).
InputResume ==
    /\ pc \in {"gate_wait", "input_wait"}
    /\ evt = "set"
    /\ Becomes(Resume(World, FALSE))
    /\ UNCHANGED <<envVars, stopVars, restVars>>

\* The timeout of wait_for expires (context.py:245-248).
InputTimeout ==
    /\ pc \in {"gate_wait", "input_wait"}
    /\ evt = "clear"
    /\ Becomes(Resume(World, TRUE))
    /\ UNCHANGED <<envVars, stopVars, restVars>>

\* After the send of node_complete: send_screenshot (context.py:170-189,
\* every failure logged and swallowed) and the next pass of the loop.
Screenshot ==
    /\ pc = "shot"
    /\ LET w == IF page = "none" \/ ws = "none" THEN World
                ELSE IF page = "closed" THEN Log(World)
                ELSE SendGuarded(World, Ev("screenshot", cur, TRUE))
       IN Becomes(LoopTop([w EXCEPT !.idx = @ + 1]))
    /\ UNCHANGED <<envVars, stopVars, restVars>>

\* hasattr(context, "_context") and its value, executor.py:342-345.  No
\* code assigns context._context: ExecutionContext.__init__ does not define
\* it and BrowserManager.connect works on browser.contexts[0] without
\* storing it (browser_manager.py:106, 140).
has_custom_context == FALSE

\* A mutant of Save: the failure of the repository leaves recorder.save
\* and reaches the handler of execute().
SaveRaises ==
    /\ pc = "save"
    /\ \E ok \in BOOLEAN :
         LET w == [World EXCEPT !.saved = @ + 1]
         IN Becomes(IF ok THEN Finish(w, "none") ELSE Handler(w, "OSError"))
    /\ UNCHANGED <<envVars, stopVars, restVars>>

\* After the send of execution_complete: the extraction of the storage
\* state (executor.py:340-359, every failure of it logged and swallowed),
\* then recorder.save, executor.py:361 and execution_recorder.py:91-122; a
\* failure of the repository is logged.
Save ==
    /\ pc = "save"
    /\ \E ok \in BOOLEAN :
         LET w0 == IF has_custom_context
                   THEN SendGuarded(World, Ev("storage_state_update", 0, TRUE))
                   ELSE World
             w == [w0 EXCEPT !.saved = @ + 1]
         IN Becomes(Finish(IF ok THEN w ELSE Log(w), "none"))
    /\ UNCHANGED <<envVars, stopVars, restVars>>

\* A mutant of ErrSend: execute() without its finally clause, the handler
\* returns without _cleanup.
ErrSendNoFinally ==
    /\ pc = "err_send"
    /\ Becomes([SendGuarded(World, Ev("error", cur, FALSE))
                   EXCEPT !.pc = "done"])
    /\ UNCHANGED <<envVars, stopVars, restVars>>

\* The error message of the handler of execute(), executor.py:121-133.
ErrSend ==
    /\ pc = "err_send"
    /\ Becomes([SendGuarded(World, Ev("error", cur, FALSE))
                   EXCEPT !.pc = "cleanup"])
    /\ UNCHANGED <<envVars, stopVars, restVars>>

\* _cleanup, executor.py:363-368, with BrowserManager.cleanup
\* (browser_manager.py:205-224): a page created in an attached browser is
\* closed and the closing logged; a launched browser is stopped.
Cleanup ==
    /\ pc = "cleanup"
    /\ LET w0 == [World EXCEPT !.cleanups = @ + 1]
           w == CASE mode = "attach_new" /\ page = "open" ->
                       Log([w0 EXCEPT !.page = "closed"])
                  [] mode = "launch" -> [w0 EXCEPT !.page = "closed"]
                  [] OTHER -> w0
       IN Becomes([w EXCEPT !.pc = "unregister"])
    /\ UNCHANGED <<envVars, stopVars, restVars>>

\* A mutant of Unregister: the entry is left in active_executions.
UnregisterKeeps ==
    /\ pc = "unregister"
    /\ stopPc = "idle"
    /\ pc' = "done"
    /\ UNCHANGED <<envVars, stopVars, restVars, histVars, registered, status, cur, page,
                   mode, evt, resp, idx, order, prev, exc, records, events,
                   invoked, raised>>

\* _cleanup, executor.py:370-372: under the lock, the entry is deleted.
Unregister ==
    /\ pc = "unregister"
    /\ stopPc = "idle"
    /\ registered' = FALSE
    /\ pc' = "done"
    /\ UNCHANGED <<envVars, stopVars, restVars, histVars, status, cur, page, mode, evt,
                   resp, idx, order, prev, exc, records, events, invoked,
                   raised>>

\* stop(), executor.py:383-390: under the lock, a context that is found is
\* set to cancelled.
StopCall ==
    /\ stops < MaxStops
    /\ stopPc = "idle"
    /\ stops' = stops + 1
    /\ IF registered
       THEN /\ status' = "cancelled"
            /\ stopPc' = "send"
            /\ stopHit' = TRUE
       ELSE UNCHANGED <<status, stopPc, stopHit>>
    /\ UNCHANGED <<envVars, restVars, histVars, registered, cur, page, mode, evt, resp,
                   pc, idx, order, prev, exc, records, events, invoked,
                   raised>>

\* stop(), executor.py:392-404: execution_cancelled is sent, a failure of
\* the send swallowed.
StopSend ==
    /\ stopPc = "send"
    /\ events' = IF ws = "open"
                 THEN Append(events, Ev("execution_cancelled", 0, TRUE))
                 ELSE events
    /\ stopPc' = "close"
    /\ UNCHANGED <<envVars, restVars, histVars, registered, status, cur, page, mode,
                   evt, resp, pc, idx, order, prev, exc, records, invoked,
                   raised, stops, stopHit>>

\* stop(), executor.py:406-419: the page is closed and the lock released.
StopClose ==
    /\ stopPc = "close"
    /\ page' = IF page = "open" THEN "closed" ELSE page
    /\ stopPc' = "idle"
    /\ UNCHANGED <<envVars, restVars, histVars, registered, status, cur, mode, evt,
                   resp, pc, idx, order, prev, exc, records, events, invoked,
                   raised, stops, stopHit>>

\* respond_user_input, executor.py:423-426 and context.py:252-269.
Respond ==
    /\ registered
    /\ \E r \in {"continue", "cancel"} :
         /\ resp' = r
         /\ evt' = IF evt = "none" THEN "none" ELSE "set"
    /\ UNCHANGED <<envVars, stopVars, restVars, histVars, registered, status, cur, page,
                   mode, pc, idx, order, prev, exc, records, events, invoked,
                   raised>>

\* The client goes away: later sends on the channel fail.
CloseChannel ==
    /\ ws = "open"
    /\ ws' = "closed"
    /\ UNCHANGED <<wf, mgrAccepts, stopVars, restVars, histVars, registered, status,
                   cur, page, mode, evt, resp, pc, idx, order, prev, exc,
                   records, events, invoked, raised>>

TaskStep ==
    \/ ConnectDone \/ ConnectFail \/ Announce \/ DispatchNode \/ GateDone
    \/ ExecReturn \/ AskSend \/ InputResume \/ InputTimeout \/ Screenshot
    \/ Save
    \/ ErrSend \/ Cleanup \/ Unregister

Next ==
    \/ Execute \/ TaskStep
    \/ StopCall \/ StopSend \/ StopClose
    \/ Respond \/ CloseChannel

Spec == Init /\ [][Next]_vars

\* asyncio runs a task that can run: the execute() task, the timer of
\* wait_for included, and a stop() that has started.  Nothing makes the
\* client call stop, answer a request for input or go away.
FairInit == Init /\ Len(wf) <= MaxFairWalk

\* The executions of FairInit without the fairness.
SmallSpec == FairInit /\ [][Next]_vars

FairSpec ==
    FairInit /\ [][Next]_vars /\ WF_vars(TaskStep) /\ WF_vars(StopSend \/ StopClose)

----------------------------------------------------------------------------
(* Properties of one execution *)

IsStart(e) == e.type = "node_start"
IsComplete(e) == e.type = "node_complete"

\* The events events'[Len(events)+1 ..] a step appends.
Appended == {events'[i] : i \in (Len(events) + 1)..Len(events')}

\* The outbound events filtered to node_start and node_complete.
NodeEvents == SelectSeq(events, LAMBDA e : IsStart(e) \/ IsComplete(e))

\* The outbound events filtered to the kinds the scenarios list.
ScenarioEvents ==
    SelectSeq(events, LAMBDA e : e.type \in {"execution_started", "node_start",
                                            "node_complete", "execution_complete"})

\* C2: once the status is completed, failed or cancelled it never changes
\* again.
C2_TerminalIsFinal == [][(status \in Terminal) => (status' = status)]_vars

C4_StopLeadsToRemoval == stopHit ~> (~registered /\ status \in Terminal)

\* A finished run whose stop arrived while it waited for user input.
C4_Witness ==
    /\ stopHit /\ pc = "done" /\ ~registered /\ status \in Terminal
    /\ \E i, j \in DOMAIN events :
         /\ i < j
         /\ events[i].type = "user_input_required"
         /\ events[j].type = "execution_cancelled"
    /\ resp = "none"

C6_TrivialPassThrough ==
    (/\ pc = "done" /\ wf = <<"noop", "noop">>
     /\ stops = 0 /\ ws = "open" /\ exc # "BrowserError") =>
        /\ status = "completed"
        /\ order = <<1, 2>>
        /\ ScenarioEvents =
              << Ev("execution_started", 0, TRUE),
                 Ev("node_start", 1, TRUE), Ev("node_complete", 1, TRUE),
                 Ev("node_start", 2, TRUE), Ev("node_complete", 2, TRUE),
                 Ev("execution_complete", 0, TRUE) >>

\* C7: in a finished run a node_complete{success:false} of a node whose
\* error is not a cancellation is immediately followed by
\* execution_complete{success:false}, and the last event of a cancelled run
\* is execution_cancelled.
C7_FailureEvents ==
    /\ \A i \in DOMAIN events :
          (/\ IsComplete(events[i]) /\ ~events[i].ok
           /\ raised[events[i].node] \in {"PlaywrightError", "ValueError",
                                          "RuntimeError"}
           /\ i < Len(events) \/ pc = "done") =>
              /\ i < Len(events)
              /\ events[i + 1] = Ev("execution_complete", 0, FALSE)
    /\ (pc = "done" /\ ws = "open" /\ status = "cancelled") =>
          /\ events # <<>>
          /\ events[Len(events)].type = "execution_cancelled"

C9_SilentAfterTerminal == [][(status \in Terminal) => (events' = events)]_vars

C11_EveryOutcomeIsSaved ==
    (pc = "done" /\ status \in Terminal) => saved = 1

\* C12: when execute() has finished, on whatever path, the browser cleanup
\* has been called and the id is not a key of active_executions.
C12_CleanupOnEveryExit ==
    pc = "done" => (~registered /\ cleanups = 1)

\* A run that ended with the CancelledError of a checkpoint, which the
\* handler of execute() does not catch.
C12_Witness ==
    /\ pc = "done" /\ exc = "CancelledError" /\ stopHit
    /\ ~registered /\ cleanups = 1

Waits == {"gate_wait", "input_wait"}

C38_SaveIsBestEffort ==
    [][(pc = "save" /\ pc' # pc) =>
          /\ saved' = saved + 1
          /\ status' = status
          /\ exc' = "none" /\ pc' = "cleanup"
          /\ \A e \in Appended : e.type = "log"]_vars

\* A completed run whose save failed: the log entry of the failure is the
\* last event, right after execution_complete, and the run is in its
\* cleanup with the status completed and no exception.
C38_Witness ==
    /\ pc = "cleanup" /\ saved = 1 /\ stops = 0
    /\ status = "completed" /\ exc = "none"
    /\ Len(events) >= 2
    /\ events[Len(events)].type = "log"
    /\ events[Len(events) - 1].type = "execution_complete"

----------------------------------------------------------------------------
(* SpecBrowser: BrowserManager (engine/browser_manager.py) and the tab      *)
(* actions (engine/actions/browser.py) on one context.                      *)
(*                                                                         *)
(* bm.pages lists the pages of the browser the context is connected to, in *)
(* the order they were opened; a page is its index.  user: the page was    *)
(* opened by the user; blank: its url is about:blank; def: it belongs to   *)
(* the default BrowserContext of the browser, contexts[0] of an attached   *)
(* browser.  browser.new_page() opens its page in a BrowserContext of its  *)
(* own.                                                                    *)

UserTab(blank) == [user |-> TRUE, blank |-> blank, open |-> TRUE, def |-> TRUE]

EnginePage(def) == [user |-> FALSE, blank |-> TRUE, open |-> TRUE, def |-> def]

\* The pages of the browser, as indices, in the order they were opened.
PageIds(b) == [i \in 1..Len(b.pages) |-> i]

\* browser.contexts[0].pages: the open pages of the default context of an
\* attached browser.  A launched browser has one BrowserContext for each
\* page browser.new_page() opened, which closes with its page: contexts[0]
\* is the context of the oldest page that is open.
ContextPages(b) ==
    IF b.browser = "cdp"
    THEN SelectSeq(PageIds(b), LAMBDA i : b.pages[i].open /\ b.pages[i].def)
    ELSE LET own == SelectSeq(PageIds(b), LAMBDA i : b.pages[i].open)
         IN IF own = <<>> THEN <<>> ELSE <<own[1]>>

\* default_context.new_page() (def) or browser.new_page() (~def), assigned
\* to context.page.
NewPage(b, def) ==
    [b EXCEPT !.pages = Append(@, EnginePage(def)), !.page = Len(b.pages) + 1]

\* page.close()
ClosePage(b, i) == [b EXCEPT !.pages[i].open = FALSE]

\* The page connect adopts, browser_manager.py:151-155: the first page of
\* the default context whose url is not about:blank; 0 when there is none.
ReusablePage(b) ==
    LET c == SelectSeq(PageIds(b), LAMBDA i : b.pages[i].open /\ b.pages[i].def
                                            /\ ~b.pages[i].blank)
    IN IF c = <<>> THEN 0 ELSE c[1]

\* A mutant of connect: a context that has a browser and a page is connected
\* again like one that has none.
connect_again(b, out) ==
    LET b1 == [b EXCEPT !.playwright = "started"]
    IN CASE out = "attach" ->
              LET r == ReusablePage(b1)
                  b2 == [b1 EXCEPT !.browser = "cdp", !.is_cdp = TRUE]
              IN IF r # 0
                 THEN [b2 EXCEPT !.page = r, !.reused_page = TRUE,
                                 !.ret = <<TRUE, TRUE>>]
                 ELSE [NewPage(b2, TRUE) EXCEPT !.reused_page = FALSE,
                                                !.ret = <<TRUE, FALSE>>]
         [] out = "launch" ->
              [NewPage([b1 EXCEPT !.browser = "own"], FALSE)
                  EXCEPT !.is_cdp = FALSE, !.reused_page = FALSE,
                         !.ret = <<FALSE, FALSE>>]
         [] OTHER -> [b1 EXCEPT !.ret = <<>>]

\* BrowserManager.connect(context, headless), browser_manager.py:86-203.
\* out is what the machine gives when the context has neither browser nor
\* page: "attach" (a debug port answers), "launch" (none does and chromium
\* starts) or "fail" (none does and the launch raises).  ret is the pair
\* returned, <<>> when connect raised.
connect(b, out) ==
    IF b.browser # "none" /\ b.page = 0
    THEN [NewPage(b, b.is_cdp) EXCEPT !.reused_page = FALSE,
                                      !.ret = <<b.is_cdp, FALSE>>]
    ELSE IF b.browser # "none" \/ b.page # 0
    THEN [b EXCEPT !.ret = <<b.is_cdp, b.reused_page>>]
    ELSE LET b1 == [b EXCEPT !.playwright = "started"]
         IN CASE out = "attach" ->
                   LET r == ReusablePage(b1)
                       b2 == [b1 EXCEPT !.browser = "cdp", !.is_cdp = TRUE]
                   IN IF r # 0
                      THEN [b2 EXCEPT !.page = r, !.reused_page = TRUE,
                                      !.ret = <<TRUE, TRUE>>]
                      ELSE [NewPage(b2, TRUE) EXCEPT !.reused_page = FALSE,
                                                     !.ret = <<TRUE, FALSE>>]
              [] out = "launch" ->
                   [NewPage([b1 EXCEPT !.browser = "own"], FALSE)
                       EXCEPT !.is_cdp = FALSE, !.reused_page = FALSE,
                              !.ret = <<FALSE, FALSE>>]
              [] OTHER -> [b1 EXCEPT !.ret = <<>>]

\* open_tab_action, actions/browser.py:26-68, with a url: the page is found
\* or created when context.page is None, then page.goto(url), which raises
\* on a closed page.  Without a browser, browser.new_page raises.
open_tab_action(b) ==
    LET b1 == IF b.page # 0 THEN b
              ELSE IF b.is_cdp /\ b.browser # "none"
                   THEN IF ContextPages(b) # <<>>
                        THEN [b EXCEPT !.page = ContextPages(b)[1]]
                        ELSE NewPage(b, FALSE)
                   ELSE IF b.browser # "none" THEN NewPage(b, FALSE) ELSE b
    IN IF b1.page # 0 /\ b1.pages[b1.page].open
       THEN [b1 EXCEPT !.pages[b1.page].blank = FALSE]
       ELSE b1

\* switch_tab_action with config.index = k - 1, actions/browser.py:332-367;
\* an index out of range raises ValueError.
switch_tab_action(b, k) ==
    IF b.browser = "none" \/ k > Len(ContextPages(b)) THEN b
    ELSE [b EXCEPT !.page = ContextPages(b)[k]]

\* close_tab_action, actions/browser.py:382-406.
close_tab_action(b) ==
    IF b.page = 0 \/ Len(ContextPages(b)) <= 1 THEN b
    ELSE LET b1 == ClosePage(b, b.page)
             rem == ContextPages(b1)
         IN [b1 EXCEPT !.page = IF rem = <<>> THEN 0 ELSE rem[Len(rem)]]

\* The part of stop() that releases the browser, executor.py:406-417:
\* context.page is closed; no context ever has a _context.
stop_release(b) ==
    IF b.page # 0 THEN ClosePage(b, b.page) ELSE b

\* A mutant of cleanup: the page is closed whatever reused_page says.
cleanup_any_page(b) ==
    IF b.is_cdp
    THEN IF b.page # 0 /\ b.pages[b.page].open
         THEN ClosePage(b, b.page) ELSE b
    ELSE IF b.playwright # "none"
         THEN [b EXCEPT !.playwright = "stopped",
                        !.pages = IF b.browser = "own"
                                  THEN [i \in DOMAIN @ |->
                                           [@[i] EXCEPT !.open = FALSE]]
                                  ELSE @]
         ELSE b

\* BrowserManager.cleanup, browser_manager.py:205-224.  playwright.stop()
\* ends the driver and with it the browser the driver launched.
cleanup(b) ==
    IF b.is_cdp
    THEN IF ~b.reused_page /\ b.page # 0 /\ b.pages[b.page].open
         THEN ClosePage(b, b.page) ELSE b
    ELSE IF b.playwright # "none"
         THEN [b EXCEPT !.playwright = "stopped",
                        !.pages = IF b.browser = "own"
                                  THEN [i \in DOMAIN @ |->
                                           [@[i] EXCEPT !.open = FALSE]]
                                  ELSE @]
         ELSE b

\* The user's browser has up to MaxUserTabs tabs when it can be attached to.
\* The context is new (context.py:135-136), or is handed to connect already
\* attached and without a page.
BmInit ==
    /\ \E a \in BOOLEAN :
       \E ut \in SeqsUpTo(BOOLEAN, MaxUserTabs) :
       \E pre \in BOOLEAN :
         /\ ~a => (ut = <<>> /\ ~pre)
         /\ bm = [browser |-> IF pre THEN "cdp" ELSE "none", page |-> 0,
                  is_cdp |-> pre, reused_page |-> FALSE,
                  playwright |-> "none",
                  pages |-> [i \in DOMAIN ut |-> UserTab(ut[i])],
                  ret |-> <<>>, op |-> "none", connects |-> 0,
                  attachable |-> a, ended |-> FALSE]
    /\ RunIdle /\ RegIdle /\ LibIdle
    /\ sNodes = <<>> /\ sEdges = <<>> /\ sResult = <<>> /\ sDone = FALSE

\* An operation on the context: what it leaves, with its name.
BmStep(b, name) ==
    /\ bm' = [b EXCEPT !.op = name]
    /\ UNCHANGED <<sortVars, runVars, reg, libVars>>

BmConnect ==
    /\ ~bm.ended
    /\ bm.connects < MaxConnects
    /\ Len(bm.pages) < MaxTabs
    /\ \E out \in (IF bm.attachable THEN {"attach"} ELSE {"launch", "fail"}) :
         BmStep([connect(bm, out) EXCEPT !.connects = @ + 1], "connect")

\* A tab action runs on a context that has a browser.
BmOpenTab ==
    /\ ~bm.ended
    /\ bm.browser # "none"
    /\ Len(bm.pages) < MaxTabs
    /\ BmStep(open_tab_action(bm), "open_tab")

BmSwitchTab ==
    /\ ~bm.ended
    /\ bm.browser # "none"
    /\ \E k \in 1..MaxTabs : BmStep(switch_tab_action(bm, k), "switch_tab")

BmCloseTab ==
    /\ ~bm.ended
    /\ bm.browser # "none"
    /\ BmStep(close_tab_action(bm), "close_tab")

\* stop() finds the context from its registration to the end of _cleanup.
BmStop ==
    /\ bm.op \notin {"none", "stop"}
    /\ BmStep(stop_release(bm), "stop")

BmCleanup ==
    /\ ~bm.ended
    /\ bm.connects > 0
    /\ BmStep([cleanup(bm) EXCEPT !.ended = TRUE], "cleanup")

BmNext ==
    \/ BmConnect \/ BmOpenTab \/ BmSwitchTab \/ BmCloseTab
    \/ BmStop \/ BmCleanup

SpecBrowser == BmInit /\ [][BmNext]_vars

----------------------------------------------------------------------------
(* Properties of the browser manager *)

\* The pages of the user that are open.
UserPagesOpen(b) == {i \in DOMAIN b.pages : b.pages[i].user /\ b.pages[i].open}

\* C15: stop() and cleanup close no page the user opened, whatever tab
\* actions ran before.
C15_UserPagesStayOpen ==
    [][(bm'.op \in {"stop", "cleanup"}) =>
          (UserPagesOpen(bm) \subseteq UserPagesOpen(bm'))]_vars

\* C16: cleanup with is_cdp and reused_page closes nothing; with is_cdp and
\* without reused_page it closes context.page, no other page, and leaves the
\* driver running; on a launched browser it stops the driver, which closes
\* the browser.
C16_CleanupFollowsFlags ==
    [][(bm'.op = "cleanup" /\ ~bm.ended) =>
          /\ (bm.is_cdp /\ bm.reused_page) =>
                (bm'.pages = bm.pages /\ bm'.playwright = bm.playwright)
          /\ (bm.is_cdp /\ ~bm.reused_page) =>
                /\ bm.page # 0 => ~bm'.pages[bm.page].open
                /\ \A i \in DOMAIN bm.pages :
                      i # bm.page => bm'.pages[i] = bm.pages[i]
                /\ bm'.playwright = bm.playwright
          /\ (bm.browser = "own") =>
                /\ bm'.playwright = "stopped"
                /\ \A i \in DOMAIN bm'.pages : ~bm'.pages[i].open]_vars

\* After the cleanup of an attached context whose page the engine created:
\* that page is closed and a tab of the user is open.
C16_Witness ==
    /\ bm.op = "cleanup" /\ bm.is_cdp /\ ~bm.reused_page
    /\ bm.page # 0 /\ ~bm.pages[bm.page].user /\ ~bm.pages[bm.page].open
    /\ UserPagesOpen(bm) # {}

\* C17: on an attached context every page the engine opens belongs to the
\* default BrowserContext: browser.new_page() is never called.
C17_PagesInDefaultContext ==
    bm.is_cdp => \A i \in DOMAIN bm.pages : bm.pages[i].def

\* C18: connect on a context that has a browser and a page changes nothing
\* of the context or the browser and returns the stored flags.
C18_SecondConnectIsNoOp ==
    [][(/\ bm'.op = "connect" /\ bm'.connects = bm.connects + 1
        /\ bm.browser # "none" /\ bm.page # 0) =>
          bm' = [bm EXCEPT !.op = "connect", !.connects = @ + 1,
                           !.ret = <<bm.is_cdp, bm.reused_page>>]]_vars

\* A second connect has returned on a context attached to the user's
\* browser with an adopted page.
C18_Witness ==
    /\ bm.op = "connect" /\ bm.connects = 2
    /\ bm.browser = "cdp" /\ bm.page # 0 /\ bm.pages[bm.page].user
    /\ bm.ret = <<TRUE, TRUE>> /\ bm.reused_page

----------------------------------------------------------------------------
(* SpecShared: the executions of one executor.  get_executor               *)
(* (dependencies.py:12-19) gives every channel the same WorkflowExecutor,  *)
(* and every start_execution message on a channel calls execute() with the *)
(* execution_id of the channel (api/execution.py:47-64).  All executions   *)
(* attach to the browser of the user.                                      *)
(*                                                                         *)
(* reg.active  active_executions, a dict: its items in insertion order      *)
(* reg.x[e]    execution e: its context, with the fields of bm, its id and *)
(*             the position pc of its execute() task                       *)
(* reg.pages   the pages of the user's browser                             *)
(* reg.dbg     the last use of a page by debug_ai_locator                  *)

Execs == 1..MaxExecs

\* active_executions.get(id): the execution whose context is stored under
\* id, 0 when id is not a key.
ActiveGet(active, id) ==
    IF \E k \in DOMAIN active : active[k].id = id
    THEN active[CHOOSE k \in DOMAIN active : active[k].id = id].ctx
    ELSE 0

\* active_executions[id] = context: a key that exists keeps its position.
ActivePut(active, id, e) ==
    IF \E k \in DOMAIN active : active[k].id = id
    THEN [k \in DOMAIN active |->
            IF active[k].id = id THEN [id |-> id, ctx |-> e] ELSE active[k]]
    ELSE Append(active, [id |-> id, ctx |-> e])

\* del active_executions[id]
ActiveDel(active, id) == SelectSeq(active, LAMBDA it : it.id # id)

\* The context of execution e with the pages of the browser, as the
\* operators of the browser manager take it.
CtxOf(e) == [reg.x[e] EXCEPT !.pages = reg.pages]

\* Execution e is left with context b and the browser with b's pages.
CtxBecomes(e, b) ==
    /\ reg' = [reg EXCEPT !.x[e] = [b EXCEPT !.pages = <<>>],
                          !.pages = b.pages]
    /\ UNCHANGED <<sortVars, runVars, bm, libVars>>

RegInit ==
    /\ \E acc \in BOOLEAN :
       \E ids \in [Execs -> Execs] :
       \E ut \in SeqsUpTo(BOOLEAN, MaxUserTabs) :
         reg = [active |-> <<>>,
                x |-> [e \in Execs |->
                         [browser |-> "none", page |-> 0, is_cdp |-> FALSE,
                          reused_page |-> FALSE, playwright |-> "none",
                          pages |-> <<>>, ret |-> <<>>, op |-> "none",
                          connects |-> 0, attachable |-> TRUE,
                          ended |-> FALSE, id |-> ids[e], pc |-> "idle",
                          status |-> "pending"]],
                pages |-> [i \in DOMAIN ut |-> UserTab(ut[i])],
                dbg |-> <<>>,
                accepts |-> acc]
    /\ RunIdle /\ BmIdle /\ LibIdle
    /\ sNodes = <<>> /\ sEdges = <<>> /\ sResult = <<>> /\ sDone = FALSE

\* execute(), executor.py:94-151: the context is created and stored under
\* its id, and connect is called with the storage_state keyword.
RegExecute(e) ==
    /\ reg.x[e].pc = "idle"
    /\ reg' = [reg EXCEPT
                 !.active = ActivePut(@, reg.x[e].id, e),
                 !.x[e].status = IF reg.accepts THEN "running" ELSE "failed",
                 !.x[e].pc = IF reg.accepts THEN "connect" ELSE "cleanup"]
    /\ UNCHANGED <<sortVars, runVars, bm, libVars>>

\* connect returns to _run_workflow.
RegConnect(e) ==
    /\ reg.x[e].pc = "connect"
    /\ Len(reg.pages) < MaxTabs
    /\ CtxBecomes(e, [connect(CtxOf(e), "attach") EXCEPT !.pc = "run"])

\* A node navigates the page of the execution.
RegNavigate(e) ==
    /\ reg.x[e].pc = "run"
    /\ CtxBecomes(e, open_tab_action(CtxOf(e)))

\* The walk ends, executor.py:316-361, and execute() enters _cleanup.
RegFinish(e) ==
    /\ reg.x[e].pc = "run"
    /\ reg' = [reg EXCEPT
                 !.x[e].pc = "cleanup",
                 !.x[e].status = IF @ = "cancelled" THEN @ ELSE "completed"]
    /\ UNCHANGED <<sortVars, runVars, bm, libVars>>

\* _cleanup, executor.py:363-368.
RegCleanup(e) ==
    /\ reg.x[e].pc = "cleanup"
    /\ CtxBecomes(e, [cleanup(CtxOf(e)) EXCEPT !.pc = "unregister"])

\* _cleanup, executor.py:370-372.
RegUnregister(e) ==
    /\ reg.x[e].pc = "unregister"
    /\ reg' = [reg EXCEPT !.active = ActiveDel(@, reg.x[e].id),
                          !.x[e].pc = "done"]
    /\ UNCHANGED <<sortVars, runVars, bm, libVars>>

\* stop(id), executor.py:374-421, on the context stored under id.
RegStop(id) ==
    LET e == ActiveGet(reg.active, id)
    IN /\ e # 0
       /\ reg.x[e].status # "cancelled"
       /\ CtxBecomes(e, [stop_release(CtxOf(e)) EXCEPT !.status = "cancelled"])

\* A debug_ai_locator message on the channel of id, api/execution.py:96-120:
\* the page of the first context of active_executions that has one is used.
RegDebug(id) ==
    LET have == SelectSeq(reg.active, LAMBDA it : reg.x[it.ctx].page # 0)
    IN /\ have # <<>>
       /\ reg' = [reg EXCEPT !.dbg = <<[for |-> id, ctx |-> have[1].ctx,
                                       page |-> reg.x[have[1].ctx].page]>>]
       /\ UNCHANGED <<sortVars, runVars, bm, libVars>>

RegNext ==
    \/ \E e \in Execs :
         \/ RegExecute(e) \/ RegConnect(e) \/ RegNavigate(e) \/ RegFinish(e)
         \/ RegCleanup(e) \/ RegUnregister(e)
    \/ \E id \in Execs : RegStop(id) \/ RegDebug(id)

SpecShared == RegInit /\ [][RegNext]_vars

\* Execution e is between its registration and the end of its _cleanup.
IsActive(e) == reg.x[e].pc \in {"connect", "run", "cleanup", "unregister"}

\* C13: while an execution is between its registration and its cleanup,
\* active_executions holds its own context under its id.
C13_OneOwnerPerId ==
    \A e \in Execs : IsActive(e) => ActiveGet(reg.active, reg.x[e].id) = e

----------------------------------------------------------------------------
(* SpecResolve: resolve_variables (engine/actions/utils.py:124-155).        *)
(*                                                                         *)
(* A string is a sequence of characters.  A value of a config is a string  *)
(* leaf, a number leaf, a list of values or a dict, whose items are kept   *)
(* in insertion order; the variables are a function from names to string   *)
(* or number leaves.                                                       *)

Str(s) == [kind |-> "str", s |-> s]
Num(n) == [kind |-> "num", n |-> n]
List(items) == [kind |-> "list", items |-> items]
Dict(items) == [kind |-> "dict", items |-> items]

\* The characters \w matches, among those of the model.
WordChars == {"a", "b", "c", "x", "7", "_"}

\* The text {{name}}.
Tok(name) == <<"{", "{">> \o name \o <<"}", "}">>

\* str(value) of a leaf.
Stringify(v) == IF v.kind = "num" THEN <<"7">> ELSE v.s

\* s[:n] and s[n:] of Python, which clamp n to the length.
Take(s, n) == SubSeq(s, 1, IF n < Len(s) THEN n ELSE Len(s))
Drop(s, n) == SubSeq(s, (IF n < Len(s) THEN n ELSE Len(s)) + 1, Len(s))

Reverse(q) == [i \in 1..Len(q) |-> q[Len(q) + 1 - i]]

\* The number of consecutive word characters of s from position j on.
RECURSIVE WordRun(_, _)
WordRun(s, j) ==
    IF j <= Len(s) /\ s[j] \in WordChars THEN 1 + WordRun(s, j + 1) ELSE 0

\* The pattern \{\{(\w+)\}\} tried at position i of s: the position of the
\* last character of the match, 0 when it does not match there.
MatchEnd(s, i) ==
    LET n == WordRun(s, i + 2)
        e == i + n + 3
    IN IF /\ i + 1 <= Len(s) /\ s[i] = "{" /\ s[i + 1] = "{"
          /\ n >= 1 /\ e <= Len(s) /\ s[e - 1] = "}" /\ s[e] = "}"
       THEN e ELSE 0

\* list(re.finditer(pattern, value)) from position i on: the leftmost
\* non-overlapping matches, as the positions of their first and last
\* characters.
RECURSIVE finditer(_, _)
finditer(s, i) ==
    IF i > Len(s) THEN <<>>
    ELSE LET e == MatchEnd(s, i)
         IN IF e # 0 THEN <<[start |-> i, end |-> e]>> \o finditer(s, e + 1)
            ELSE finditer(s, i + 1)

\* The body of the loop of resolve_value, utils.py:141-144, for the matches
\* ms in the order given: each match of the original text s is cut out of
\* result at its own offsets and the text of the variable, or the match
\* itself when the name is not a key, is put in.
RECURSIVE Splice(_, _, _, _)
Splice(result, s, ms, V) ==
    IF ms = <<>> THEN result
    ELSE LET m == Head(ms)
             var_name == SubSeq(s, m.start + 2, m.end - 2)
             var_value == IF var_name \in DOMAIN V THEN Stringify(V[var_name])
                          ELSE SubSeq(s, m.start, m.end)
         IN Splice(Take(result, m.start - 1) \o var_value \o Drop(result, m.end),
                   s, Tail(ms), V)

\* A mutant of resolve_string: the matches are replaced from the first to
\* the last, at the offsets they have in the original text.
resolve_string_forward(s, V) == Splice(s, s, finditer(s, 1), V)

\* resolve_value on a string, utils.py:136-146: the matches are replaced
\* from the last to the first.
resolve_string(s, V) == Splice(s, s, Reverse(finditer(s, 1)), V)

\* resolve_value, utils.py:135-151.
RECURSIVE resolve_value(_, _)
resolve_value(value, V) ==
    CASE value.kind = "str" -> Str(resolve_string(value.s, V))
      [] value.kind = "dict" ->
           Dict([i \in DOMAIN value.items |->
                   [key |-> value.items[i].key,
                    val |-> resolve_value(value.items[i].val, V)]])
      [] value.kind = "list" ->
           List([i \in DOMAIN value.items |-> resolve_value(value.items[i], V)])
      [] OTHER -> value

\* resolve_variables(config, context), utils.py:124-155, with V the
\* variables of the context.
resolve_variables(config, V) == resolve_value(config, V)

MaxPieces == 3

\* The texts the strings of a config are put together from.
Pieces ==
    {<<"{">>, <<"{", "{">>, <<"}", "}">>, <<"a">>, Tok(<<"a">>), Tok(<<"b">>),
     Tok(<<"c">>)}

RECURSIVE Concat(_)
Concat(q) == IF q = <<>> THEN <<>> ELSE Head(q) \o Concat(Tail(q))

Texts == {Concat(q) : q \in SeqsUpTo(Pieces, MaxPieces)}

\* The names and the values of the variables: a text, the empty text, a
\* text that is the token of b, a number.
VarNames == {<<"a">>, <<"b">>}
VarValues == {Str(<<"x">>), Str(<<>>), Str(Tok(<<"b">>)), Num(7)}
VarMaps == UNION {[K -> VarValues] : K \in SUBSET VarNames}

\* The configs: the text as the leaf itself, in a list beside a number and
\* a nested list, and in a dict one of whose keys is a token.
Shapes == {"leaf", "list", "dict"}
Config(shape, t) ==
    CASE shape = "leaf" -> Str(t)
      [] shape = "list" -> List(<<Num(7), Str(t), List(<<Str(t)>>)>>)
      [] shape = "dict" ->
           Dict(<<[key |-> Tok(<<"a">>), val |-> Str(t)],
                  [key |-> <<"x">>,
                   val |-> List(<<Dict(<<[key |-> <<"a">>, val |-> Str(t)],
                                         [key |-> <<"b">>, val |-> Num(7)]>>)>>)]>>)

RvInit ==
    /\ \E t \in Texts : \E shape \in Shapes : \E V \in VarMaps :
         rv = [text |-> t, config |-> Config(shape, t), vars |-> V,
               once |-> Num(0), twice |-> Num(0), done |-> 0]
    /\ ar = <<>> /\ loc = <<>> /\ js = <<>>
    /\ RunIdle /\ BmIdle /\ RegIdle
    /\ sNodes = <<>> /\ sEdges = <<>> /\ sResult = <<>> /\ sDone = FALSE

\* resolve_variables is applied to the config.
RvResolve ==
    /\ rv.done = 0
    /\ rv' = [rv EXCEPT !.once = resolve_variables(rv.config, rv.vars),
                        !.done = 1]
    /\ UNCHANGED <<sortVars, runVars, bm, reg, ar, loc, js>>

\* resolve_variables is applied to what it returned.
RvResolveAgain ==
    /\ rv.done = 1
    /\ rv' = [rv EXCEPT !.twice = resolve_variables(rv.once, rv.vars),
                        !.done = 2]
    /\ UNCHANGED <<sortVars, runVars, bm, reg, ar, loc, js>>

RvNext == RvResolve \/ RvResolveAgain

SpecResolve == RvInit /\ [][RvNext]_vars

\* The expansion of a text in one pass from the left: a token whose name is
\* a variable gives the text of the value, any other character, the
\* characters of the other tokens included, gives itself, and what was put
\* out is never read.
RECURSIVE Expanded(_, _)
Expanded(s, V) ==
    IF s = <<>> THEN <<>>
    ELSE LET e == MatchEnd(s, 1)
             name == SubSeq(s, 3, e - 2)
         IN IF e # 0 /\ name \in DOMAIN V
            THEN Stringify(V[name]) \o Expanded(Drop(s, e), V)
            ELSE IF e # 0 THEN Take(s, e) \o Expanded(Drop(s, e), V)
            ELSE <<Head(s)>> \o Expanded(Tail(s), V)

\* The same structure with every string leaf expanded.
RECURSIVE ExpandedAll(_, _)
ExpandedAll(value, V) ==
    CASE value.kind = "str" -> Str(Expanded(value.s, V))
      [] value.kind = "dict" ->
           Dict([i \in DOMAIN value.items |->
                   [key |-> value.items[i].key,
                    val |-> ExpandedAll(value.items[i].val, V)]])
      [] value.kind = "list" ->
           List([i \in DOMAIN value.items |-> ExpandedAll(value.items[i], V)])
      [] OTHER -> value

\* C23: resolve_variables replaces, in every string leaf of a nested
\* structure of dicts and lists, each {{name}} whose name is a variable by
\* the stringified value, leaves the other tokens verbatim, returns the
\* non-string leaves and the keys unchanged and does not read the text it
\* substituted again.
C23_OnePassSubstitution ==
    rv.done >= 1 => rv.once = ExpandedAll(rv.config, rv.vars)

\* A dict whose text holds the token of a, the token of b and the token of
\* c, with a defined as the token of b, b a number and c not defined.
C23_Witness ==
    /\ rv.done >= 1
    /\ rv.text = Tok(<<"a">>) \o Tok(<<"c">>) \o Tok(<<"b">>)
    /\ DOMAIN rv.vars = VarNames
    /\ rv.vars[<<"a">>] = Str(Tok(<<"b">>)) /\ rv.vars[<<"b">>] = Num(7)
    /\ rv.config.kind = "dict"
    /\ rv.once = Config("dict", Tok(<<"b">>) \o Tok(<<"c">>) \o <<"7">>)

\* C24: applying resolve_variables to its own result changes nothing, also
\* when the value of a variable holds the token of another variable.
C24_SubstitutionIsIdempotent ==
    rv.done = 2 => rv.twice = rv.once

----------------------------------------------------------------------------
(* SpecRegistry: ActionRegistry (engine/actions/registry.py).               *)
(*                                                                         *)
(* ar.actions is the dict _actions as the sequence of its values in        *)
(* insertion order; ar.calls lists the register calls made; ar.ret holds   *)
(* what the last call returned when it was get_all_schemas.                *)

MaxRegs == 3

\* ActionMetadata, registry.py:6-15; label stands for the fields that do
\* not decide anything, outputs for those a schema leaves out.
Metadatas ==
    [name : {"start", "click"}, category : {"base", "browser", "control"},
     label : {1, 2}, outputs : {<<>>}]

\* self._actions[metadata.name] = {...}, registry.py:35-38: a new key goes
\* to the end of the dict, a key that is present keeps its place and gets
\* the new value.
register(actions, metadata, execute_func) ==
    LET entry == [metadata |-> metadata, execute |-> execute_func]
        at == {i \in DOMAIN actions : actions[i].metadata.name = metadata.name}
    IN IF at = {} THEN Append(actions, entry)
       ELSE [i \in DOMAIN actions |-> IF i \in at THEN entry ELSE actions[i]]

\* The schema of an action, registry.py:66-72.
Schema(metadata) ==
    [name |-> metadata.name, label |-> metadata.label,
     category |-> metadata.category]

\* A mutant of get_all_schemas: the comprehension without its condition.
list_all_schemas(actions) ==
    [i \in DOMAIN actions |-> Schema(actions[i].metadata)]

\* get_all_schemas, registry.py:59-75.
get_all_schemas(actions) ==
    LET kept == SelectSeq(actions, LAMBDA a : a.metadata.category # "base")
    IN [i \in DOMAIN kept |-> Schema(kept[i].metadata)]

ArInit ==
    /\ ar = [actions |-> <<>>, calls |-> <<>>, ret |-> <<>>]
    /\ rv = <<>> /\ loc = <<>> /\ js = <<>>
    /\ RunIdle /\ BmIdle /\ RegIdle
    /\ sNodes = <<>> /\ sEdges = <<>> /\ sResult = <<>> /\ sDone = FALSE

ArRegister ==
    /\ Len(ar.calls) < MaxRegs
    /\ \E md \in Metadatas :
         ar' = [actions |-> register(ar.actions, md, md.label),
                calls |-> Append(ar.calls, md), ret |-> <<>>]
    /\ UNCHANGED <<sortVars, runVars, bm, reg, rv, loc, js>>

ArListSchemas ==
    /\ ar.ret = <<>>
    /\ ar' = [ar EXCEPT !.ret = <<get_all_schemas(ar.actions)>>]
    /\ UNCHANGED <<sortVars, runVars, bm, reg, rv, loc, js>>

ArNext == ArRegister \/ ArListSchemas

SpecRegistry == ArInit /\ [][ArNext]_vars

\* The registered actions: for each name, the metadata of the last register
\* call that named it.
Registered ==
    {ar.calls[i] : i \in {j \in DOMAIN ar.calls :
                            \A k \in DOMAIN ar.calls :
                               ar.calls[k].name = ar.calls[j].name => k <= j}}

\* C25: after any sequence of register calls get_all_schemas returns the
\* schemas of exactly the registered actions whose category is not base,
\* one entry for each name, and no entry of category base.
C25_SchemasExcludeBase ==
    ar.ret # <<>> =>
        LET r == ar.ret[1]
        IN /\ \A i \in DOMAIN r : r[i].category # "base"
           /\ \A i, j \in DOMAIN r : r[i].name = r[j].name => i = j
           /\ Range(r) = {Schema(md) : md \in {m \in Registered :
                                                 m.category # "base"}}

\* start was registered as a base action, click as a browser action and
\* then again as a base action and start again as a control action: the
\* listing is the one entry of start.
C25_Witness ==
    /\ ar.ret # <<>> /\ Len(ar.ret[1]) = 1 /\ Len(ar.calls) = 3
    /\ ar.calls[1].name = "start" /\ ar.calls[1].category = "base"
    /\ ar.calls[2].name = "click" /\ ar.calls[2].category = "base"
    /\ ar.calls[3].name = "start" /\ ar.calls[3].category = "control"
    /\ ar.ret[1][1].name = "start"

----------------------------------------------------------------------------
(* SpecLocate: HybridElementLocator.locate (engine/ai/locator.py) and a     *)
(* click node (actions/browser.py, actions/utils.py and the part of        *)
(* _run_workflow after the action).                                        *)
(*                                                                         *)
(* loc.els lists the elements of the page the stored selector matches,     *)
(* each with its visibility; the stored selector is "saved", the selector  *)
(* of the element the model names is "found" and that of a fallback        *)
(* strategy "fallback".  Confidence is in tenths.                          *)

MaxMatches == 2

\* locator.wait_for(state="visible") on the locator of the stored selector.
\* A Locator of Playwright is strict: wait_for resolves one element and
\* raises when the selector resolves to several; on one element it returns
\* when the element is visible and raises its TimeoutError otherwise.
WaitVisible(els) ==
    IF Len(els) >= 2 THEN "strict"
    ELSE IF Len(els) = 1 /\ els[1] THEN "ok"
    ELSE "timeout"

\* _verify_selector, locator.py:764-780: wait_for, then count() > 0; every
\* exception gives False.
verify_selector(els) == WaitVisible(els) = "ok" /\ Len(els) > 0

LocationFailed(snapshots, llm_calls) ==
    [ret |-> "ValueError", selector |-> "none", confidence |-> 0,
     method |-> "none", snapshots |-> snapshots, llm_calls |-> llm_calls]

\* _locate_with_ai, locator.py:782-853.  tree: the snapshot is empty or
\* holds nodes; client: context.llm_client is set; o: what the model call
\* gave; conf: the confidence of its answer.
locate_with_ai(tree, client, o, conf) ==
    IF tree = "empty" \/ ~client THEN LocationFailed(1, 0)
    ELSE IF o # "ok" \/ conf < 3 THEN LocationFailed(1, 1)
    ELSE [ret |-> "ok", selector |-> "found", confidence |-> conf,
          method |-> "ai", snapshots |-> 1, llm_calls |-> 1]

\* HybridElementLocator.locate, locator.py:716-762.
locate(saved_selector, els, enable_ai_fallback, tree, client, o, conf) ==
    IF saved_selector /\ verify_selector(els)
    THEN [ret |-> "ok", selector |-> "saved", confidence |-> 10,
          method |-> "css", snapshots |-> 0, llm_calls |-> 0]
    ELSE IF enable_ai_fallback THEN locate_with_ai(tree, client, o, conf)
    ELSE LocationFailed(0, 0)

\* locate_element, utils.py:8-87, as click_action calls it: the selector
\* the locator is made of, "none" when the call raises ValueError.  The
\* model and the fallback strategies are asked only when there is an
\* ai_target and no selector.
locate_element(selector, ai_target, aiOut, fbOut) ==
    IF ai_target /\ ~selector
    THEN IF aiOut = "found" THEN "found"
         ELSE IF fbOut = "found" THEN "fallback" ELSE "none"
    ELSE IF selector THEN "saved" ELSE "none"

\* click_action, browser.py:143-177: what the node returns or raises.  The
\* TimeoutError of Playwright is not the built-in TimeoutError that
\* locate_element catches.
click_action(selector, ai_target, els, aiOut, fbOut, waitOut, clickOut) ==
    LET used == locate_element(selector, ai_target, aiOut, fbOut)
        vis == IF used = "saved" THEN WaitVisible(els) ELSE waitOut
    IN IF used = "none" THEN [raised |-> "ValueError", result |-> "none"]
       ELSE IF vis # "ok" \/ clickOut # "ok"
       THEN [raised |-> "PlaywrightError", result |-> "none"]
       ELSE [raised |-> "none", result |-> [effective_selector |-> "none"]]

\* _run_workflow after the action, executor.py:219-314, on a working
\* channel: the events of the node.
node_events(out, selector) ==
    IF out.raised = "ValueError"
    THEN <<[type |-> "node_complete", ok |-> FALSE, selector |-> "none"]>>
    ELSE IF out.raised # "none" THEN <<>>
    ELSE <<[type |-> "node_complete", ok |-> TRUE, selector |-> "none"]>>
         \o (IF /\ out.result.effective_selector # "none"
                /\ out.result.effective_selector #
                       (IF selector THEN "saved" ELSE "none")
             THEN <<[type |-> "selector_update", ok |-> TRUE,
                     selector |-> out.result.effective_selector]>>
             ELSE <<>>)

\* A page, and a call of locate or a click node that was not run yet.
\* target: the page holds the element the description names.
LocInit ==
    /\ \E call \in {"locate", "click"} :
       \E els \in SeqsUpTo(BOOLEAN, MaxMatches) :
       \E sel, ai, target \in BOOLEAN :
         loc = [call |-> call, els |-> els, selector |-> sel, ai |-> ai,
                target |-> target, done |-> FALSE, r |-> <<>>,
                events |-> <<>>]
    /\ rv = <<>> /\ ar = <<>> /\ js = <<>>
    /\ RunIdle /\ BmIdle /\ RegIdle
    /\ sNodes = <<>> /\ sEdges = <<>> /\ sResult = <<>> /\ sDone = FALSE

\* locate(description, saved_selector, enable_ai_fallback) runs.
LocLocate ==
    /\ loc.call = "locate" /\ ~loc.done
    /\ \E tree \in {"empty", "nodes"} : \E client \in BOOLEAN :
       \E o \in (IF loc.target THEN {"ok", "APIError", "no_match"}
                 ELSE {"APIError", "no_match"}) :
       \E conf \in {2, 9} :
         loc' = [loc EXCEPT !.done = TRUE,
                            !.r = locate(loc.selector, loc.els, loc.ai, tree,
                                         client, o, conf)]
    /\ UNCHANGED <<sortVars, runVars, bm, reg, rv, ar, js>>

\* A click node whose config holds the selector and the ai_target runs.
LocClick ==
    /\ loc.call = "click" /\ ~loc.done
    /\ \E aiOut \in (IF loc.target THEN {"found", "ValueError"}
                     ELSE {"ValueError"}) :
       \E fbOut \in (IF loc.target THEN {"found", "none"} ELSE {"none"}) :
       \E waitOut, clickOut \in {"ok", "error"} :
         LET out == click_action(loc.selector, loc.ai, loc.els, aiOut,
                                 fbOut, waitOut, clickOut)
         IN loc' = [loc EXCEPT !.done = TRUE, !.r = out,
                               !.events = node_events(out, loc.selector)]
    /\ UNCHANGED <<sortVars, runVars, bm, reg, rv, ar, js>>

LocNext == LocLocate \/ LocClick

SpecLocate == LocInit /\ [][LocNext]_vars

\* C28: a click node whose stored selector no longer matches and whose
\* ai_target names an element of the page succeeds, its result carries the
\* located selector as effective_selector, and selector_update with that
\* selector follows node_complete{success: true}; a selector_update never
\* carries the authored selector.
C28_StaleSelectorIsHealed ==
    (loc.call = "click" /\ loc.done) =>
        /\ (loc.selector /\ WaitVisible(loc.els) # "ok"
            /\ loc.ai /\ loc.target) =>
               /\ loc.r.raised = "none"
               /\ loc.r.result.effective_selector = "found"
               /\ Len(loc.events) = 2
               /\ loc.events[1].type = "node_complete" /\ loc.events[1].ok
               /\ loc.events[2].type = "selector_update"
               /\ loc.events[2].selector = "found"
        /\ \A i \in DOMAIN loc.events :
              loc.events[i].type = "selector_update" =>
                  loc.events[i].selector # "saved"

\* C29: locate with a saved selector that matches at least one visible
\* element returns it with method css and confidence 1, without a model
\* call and without a snapshot of the page; the model is called only when
\* the saved selector is absent or fails and the fallback is enabled; with
\* the fallback disabled the call fails instead.
C29_SavedSelectorFirst ==
    (loc.call = "locate" /\ loc.done) =>
        LET valid == loc.selector /\ \E i \in DOMAIN loc.els : loc.els[i]
        IN /\ valid => /\ loc.r.ret = "ok" /\ loc.r.selector = "saved"
                       /\ loc.r.method = "css" /\ loc.r.confidence = 10
                       /\ loc.r.llm_calls = 0 /\ loc.r.snapshots = 0
           /\ loc.r.llm_calls > 0 => (~valid /\ loc.ai)
           /\ (~valid /\ ~loc.ai) => loc.r.ret = "ValueError"

----------------------------------------------------------------------------
(* SpecStore: JSONExecutionRepository (persistence/json_store.py), the     *)
(* files of one workflow_id.                                               *)
(*                                                                         *)
(* js.inodes holds the contents of the files that were created, a content  *)
(* being a sequence of parts <<record, position>>; js.dir maps the two     *)
(* names, "{workflow_id}.json" (path) and "{workflow_id}.json.tmp" (tmp),  *)
(* to the file they name, 0 when the name does not exist.  js.x[p] is the  *)
(* save_execution call p: its await point, the file it has open, the       *)
(* length of the text of its record and whether the text is still in the   *)
(* buffer of its file object.                                              *)

MaxSavers == 2
MaxParts == 2

Savers == 1..MaxSavers

\* json.dumps(execution): the text of the record of call p, n parts long.
Data(p, n) == [i \in 1..n |-> <<p, i>>]

\* A write of text d at offset 0 of a file whose content is old.
Overlay(old, d) == d \o SubSeq(old, Len(d) + 1, Len(old))

\* Some calls of save_execution for the workflow, none started; the file of
\* the workflow does not exist or holds the record of an earlier run.
StoreInit ==
    /\ \E lens \in [Savers -> 1..MaxParts] : \E had \in BOOLEAN :
         js = [inodes |-> IF had THEN <<Data(0, 1)>> ELSE <<>>,
               dir |-> [path |-> IF had THEN 1 ELSE 0, tmp |-> 0],
               x |-> [p \in Savers |->
                        [pc |-> "idle", fd |-> 0, len |-> lens[p],
                         buffered |-> FALSE]],
               seen |-> <<>>]
    /\ rv = <<>> /\ ar = <<>> /\ loc = <<>>
    /\ RunIdle /\ BmIdle /\ RegIdle
    /\ sNodes = <<>> /\ sEdges = <<>> /\ sResult = <<>> /\ sDone = FALSE

StoreStep(j) ==
    /\ js' = j
    /\ UNCHANGED <<sortVars, runVars, bm, reg, rv, ar, loc>>

\* aiofiles.open(tmp_path, "w"), json_store.py:29-30: the file of that name
\* is truncated, or created when the name does not exist.
StoreOpen(p) ==
    /\ js.x[p].pc = "idle"
    /\ StoreStep(IF js.dir.tmp # 0
                 THEN [js EXCEPT !.inodes[js.dir.tmp] = <<>>,
                                 !.x[p].fd = js.dir.tmp, !.x[p].pc = "write"]
                 ELSE [js EXCEPT !.inodes = Append(@, <<>>),
                                 !.dir.tmp = Len(js.inodes) + 1,
                                 !.x[p].fd = Len(js.inodes) + 1,
                                 !.x[p].pc = "write"])

\* await f.write(text), json_store.py:31: the text goes to the buffer of
\* the file object, or through it to the file.
StoreWrite(p) ==
    /\ js.x[p].pc = "write"
    /\ \E through \in BOOLEAN :
         LET fd == js.x[p].fd
             d == Data(p, js.x[p].len)
         IN StoreStep(IF through
                      THEN [js EXCEPT !.inodes[fd] = Overlay(@, d),
                                      !.x[p].pc = "close"]
                      ELSE [js EXCEPT !.x[p].buffered = TRUE,
                                      !.x[p].pc = "close"])

\* The end of the async with block, json_store.py:30: close() writes what
\* is in the buffer.
StoreClose(p) ==
    /\ js.x[p].pc = "close"
    /\ LET fd == js.x[p].fd
           d == Data(p, js.x[p].len)
       IN StoreStep(IF js.x[p].buffered
                    THEN [js EXCEPT !.inodes[fd] = Overlay(@, d),
                                    !.x[p].buffered = FALSE,
                                    !.x[p].pc = "replace"]
                    ELSE [js EXCEPT !.x[p].pc = "replace"])

\* os.replace(tmp_path, path), json_store.py:32, which raises
\* FileNotFoundError when tmp_path does not exist.
StoreReplace(p) ==
    /\ js.x[p].pc = "replace"
    /\ StoreStep(IF js.dir.tmp = 0
                 THEN [js EXCEPT !.x[p].pc = "FileNotFoundError"]
                 ELSE [js EXCEPT !.dir.path = js.dir.tmp, !.dir.tmp = 0,
                                 !.x[p].pc = "saved"])

\* get_latest_execution, json_store.py:34-41: the content of the file.
StoreRead ==
    /\ js.dir.path # 0
    /\ js.seen # <<js.inodes[js.dir.path]>>
    /\ StoreStep([js EXCEPT !.seen = <<js.inodes[js.dir.path]>>])

StoreNext ==
    \/ \E p \in Savers :
         StoreOpen(p) \/ StoreWrite(p) \/ StoreClose(p) \/ StoreReplace(p)
    \/ StoreRead

SpecStore == StoreInit /\ [][StoreNext]_vars

\* The complete records: those passed to save_execution and the one of the
\* earlier run.
IsRecord(content) ==
    \/ content = Data(0, 1)
    \/ \E p \in Savers : content = Data(p, js.x[p].len)

\* C30: the file of a workflow always holds exactly one of the complete
\* records passed to save_execution, under every interleaving of the saves
\* for that workflow, and what a reader gets is such a record.
C30_AtomicLatestOnly ==
    /\ js.dir.path # 0 => IsRecord(js.inodes[js.dir.path])
    /\ js.seen # <<>> => IsRecord(js.seen[1])

====
